---- MODULE Spec2Model ----
(***************************************************************************)
(* partitura/exportmusicxml.py: the export of a part's timeline to a       *)
(* MusicXML document.  Two machines are modelled:                          *)
(*   - to_musicxml over the measures of a part (Spec and its input         *)
(*     families): linearize_measure_contents, linearize_segment_contents,  *)
(*     the collectors and merge_measure_contents;                          *)
(*   - make_note_el over the shared counter dict (SpecNote): note ids and  *)
(*     slur numbers.                                                       *)
(***************************************************************************)
EXTENDS Integers, Sequences, FiniteSets, TLC

\* ------------------------------------------------------------------ bounds
NumMeasures == 2
MeasureLen == 3
MaxNotes == 2
MaxVoice == 2
MaxDur == 2
MaxSlurs == 3
MaxOps == 1
MaxMade == 4
MaxRunNotes == 3
MaxDivs == 2
MaxChordNotes == 5
MaxNoteCalls == 3

\* ------------------------------------------------------- sequence helpers
Range(s) == {s[i] : i \in 1..Len(s)}

SeqsUpTo(S, n) == UNION {[1..k -> S] : k \in 0..n}

RECURSIVE Flatten(_)
Flatten(ss) == IF ss = <<>> THEN <<>> ELSE Head(ss) \o Flatten(Tail(ss))

\* list.sort(key=...) / sorted(..., key=...): a stable sort; k[i] is the key
\* of s[i].
StableSortBy(s, k) ==
  LET pos(i) == 1 + Cardinality({j \in 1..Len(s) :
                       k[j] < k[i] \/ (k[j] = k[i] /\ j < i)})
  IN [p \in 1..Len(s) |-> s[CHOOSE i \in 1..Len(s) : pos(i) = p]]

\* sorted(keys) of a set of integers
SortedSet(S) ==
  LET pos(x) == 1 + Cardinality({y \in S : y < x})
  IN [p \in 1..Cardinality(S) |-> CHOOSE x \in S : pos(x) = p]

\* --------------------------------------------------------------- elements
\* A tuple (onset, dur, element) of the lists the linearizer builds.  nodur
\* says that the tuple's second component is None.  src names the timeline
\* object the element was built from, kids the element's children.
Elem(tag, onset, dur, nodur, src) ==
  [tag |-> tag, onset |-> onset, dur |-> dur, nodur |-> nodur,
   chord |-> FALSE, grace |-> FALSE, attr |-> "", src |-> src, kids |-> <<>>]

\* (dur or 0)
DurOrZero(x) == IF x.nodur THEN 0 ELSE x.dur

IsJump(x) == x.tag \in {"forward", "backup"}

\* ------------------------------------------------------------- add_chord_tags
\* a loop in which a grace note would also become the previous onset
RECURSIVE ChordLoopGraceCounts(_, _, _, _)
ChordLoopGraceCounts(notes, i, prev, hasPrev) ==
  IF i > Len(notes) THEN notes
  ELSE LET n == notes[i]
           tagged == IF hasPrev /\ n.onset = prev
                     THEN [n EXCEPT !.chord = TRUE] ELSE n
       IN ChordLoopGraceCounts([notes EXCEPT ![i] = tagged], i + 1, n.onset,
                               TRUE)

RECURSIVE ChordLoop(_, _, _, _)
ChordLoop(notes, i, prev, hasPrev) ==
  IF i > Len(notes) THEN notes
  ELSE LET n == notes[i]
           tagged == IF hasPrev /\ n.onset = prev
                     THEN [n EXCEPT !.chord = TRUE] ELSE n
       IN ChordLoop([notes EXCEPT ![i] = tagged], i + 1, n.onset, ~n.grace)

add_chord_tags(notes) == ChordLoop(notes, 1, 0, FALSE)

\* ------------------------------------------------------------- do_note
\* note.end.t - note.start.t is the timeline note's dur; a grace note gets 0.
do_note(note, idx) ==
  [Elem("note", note.start, IF note.grace THEN 0 ELSE note.dur, FALSE, idx)
     EXCEPT !.grace = note.grace]

\* ----------------------------------------------------- forward_backup_if_needed
\* a jump whose returned gap would keep the sign of the move
forward_backup_signed(t, t_prev) ==
  IF t > t_prev
  THEN [els |-> <<Elem("forward", t_prev, t - t_prev, FALSE, 0)>>,
        gap |-> t - t_prev]
  ELSE IF t < t_prev
  THEN [els |-> <<Elem("backup", t_prev, -(t_prev - t), FALSE, 0)>>,
        gap |-> t - t_prev]
  ELSE [els |-> <<>>, gap |-> 0]

\* returns the list of inserted tuples and the gap
forward_backup_if_needed(t, t_prev) ==
  IF t > t_prev
  THEN [els |-> <<Elem("forward", t_prev, t - t_prev, FALSE, 0)>>,
        gap |-> t - t_prev]
  ELSE IF t < t_prev
  THEN [els |-> <<Elem("backup", t_prev, -(t_prev - t), FALSE, 0)>>,
        gap |-> t_prev - t]
  ELSE [els |-> <<>>, gap |-> 0]

\* ------------------------------------------------------------- merge_with_voice
OrderBarline == 0
OrderAttributes == 1
OrderNote == 2
\* an order that would put the notes of a tick first
OrderOfNotesFirst(tag) == IF tag = "note" THEN 0 ELSE 1

\* order.get(tag, len(order))
OrderOf(tag) ==
  CASE tag = "barline" -> OrderBarline
    [] tag = "attributes" -> OrderAttributes
    [] tag = "note" -> OrderNote
    [] OTHER -> 3

\* a by_onset that would hold the notes only
ElemsAtNotesOnly(notes, other, onset) ==
  SelectSeq(notes, LAMBDA x : x.onset = onset)

\* by_onset[onset]: the notes at onset, then the other elements at onset,
\* sorted (stably) by the order of their tags
ElemsAt(notes, other, onset) ==
  LET at == SelectSeq(notes, LAMBDA x : x.onset = onset)
            \o SelectSeq(other, LAMBDA x : x.onset = onset)
  IN StableSortBy(at, [i \in 1..Len(at) |-> OrderOf(at[i].tag)])

\* the elements in the order the two nested loops visit them
MergeOrder(notes, other) ==
  LET onsets == SortedSet({x.onset : x \in Range(notes) \cup Range(other)})
  IN Flatten([p \in 1..Len(onsets) |-> ElemsAt(notes, other, onsets[p])])

\* the cursor a chord-tagged note is laid out from
ChordCursor(last_t, last_note_onset) == last_note_onset

\* a cursor that would forget the duration of the element just appended
CursorAfterNoDur(x) == x.onset

\* the cursor after an element has been appended
CursorAfter(x) == x.onset + DurOrZero(x)

\* the walk over the merged elements.  cursors[j] is last_t right after
\* result[j] was appended (kept to state claims about the cursor).
RECURSIVE MergeLoop(_, _, _, _, _, _, _)
MergeLoop(elems, i, last_t, last_note_onset, result, fb_cost, cursors) ==
  IF i > Len(elems)
  THEN [result |-> result, cost |-> fb_cost, cursors |-> cursors]
  ELSE LET x == elems[i]
           t0 == IF x.tag = "note" /\ x.chord
                 THEN ChordCursor(last_t, last_note_onset) ELSE last_t
           lno == IF x.tag = "note" THEN x.onset ELSE last_note_onset
           fb == forward_backup_if_needed(x.onset, t0)
       IN MergeLoop(elems, i + 1, CursorAfter(x), lno,
                    result \o fb.els \o <<x>>, fb_cost + fb.gap,
                    cursors \o [j \in 1..Len(fb.els) |-> x.onset]
                            \o <<CursorAfter(x)>>)

merge_with_voice(notes, other, measure_start) ==
  MergeLoop(MergeOrder(notes, other), 1, measure_start, measure_start, <<>>, 0,
            <<>>)

\* ------------------------------------------------------- merge_measure_contents
\* a selection that would ignore the costs and take the lowest voice
LowestVoice(voices, cost) == voices[1]

\* sorted(cost.items(), key=itemgetter(1))[0][0]: the items are in the order
\* the voices were inserted, which is sorted(notes.keys())
LowestCostVoice(voices, cost) ==
  StableSortBy(voices, [i \in 1..Len(voices) |-> cost[voices[i]]])[1]

\* a layout in which every voice would carry its own trial merge
RunElementsAllMerged(notes, attributes, merged, merge_voice, voices, i, measure_start) ==
  LET elements == merged[voices[i]]
  IN IF i = 1
     THEN merge_with_voice(elements, attributes, measure_start).result
     ELSE elements

\* a layout in which the attributes would go to the host voice
RunElementsAttrsInHost(notes, attributes, merged, merge_voice, voices, i, measure_start) ==
  LET voice == voices[i]
  IN IF voice = merge_voice
     THEN merge_with_voice(merged[voice], attributes, measure_start).result
     ELSE notes[voice]

\* the elements laid out for the i-th voice: the trial merge of the host, the
\* bare notes of any other voice, and the attributes merged into the first
RunElements(notes, attributes, merged, merge_voice, voices, i, measure_start) ==
  LET voice == voices[i]
      elements == IF voice = merge_voice THEN merged[voice] ELSE notes[voice]
  IN IF i = 1
     THEN merge_with_voice(elements, attributes, measure_start).result
     ELSE elements

\* backup/forward when switching voices: the bare element put before a run
RunMarker(elements, pos) ==
  IF elements = <<>> THEN <<>>
  ELSE LET gap == elements[1].onset - pos
       IN IF gap < 0 THEN <<Elem("backup", pos, gap, FALSE, 0)>>
          ELSE IF gap > 0 THEN <<Elem("forward", pos, gap, FALSE, 0)>>
          ELSE <<>>

\* a position that would not follow the run
PosUnmoved(elements, pos) == pos

\* the position after a run: elements[-1][0] + (elements[-1][1] or 0)
PosAfter(elements, pos) ==
  IF elements = <<>> THEN pos
  ELSE elements[Len(elements)].onset + DurOrZero(elements[Len(elements)])

\* the loop over enumerate(sorted(notes.keys())); a run records the voice, the
\* marker put before it, its elements and the position before and after it
RECURSIVE RunLoop(_, _, _, _, _, _, _, _, _)
RunLoop(notes, attributes, merged, merge_voice, voices, measure_start, i, pos, runs) ==
  IF i > Len(voices) THEN runs
  ELSE LET elements == RunElements(notes, attributes, merged, merge_voice,
                                   voices, i, measure_start)
           run == [voice |-> voices[i], marker |-> RunMarker(elements, pos),
                   elements |-> elements, before |-> pos,
                   after |-> PosAfter(elements, pos)]
       IN RunLoop(notes, attributes, merged, merge_voice, voices,
                  measure_start, i + 1, run.after, Append(runs, run))

\* notes maps each voice to its list of note tuples.  With no voice at all,
\* sorted(cost.items(), ...)[0] raises IndexError.
merge_measure_contents(notes, attributes, other, measure_start) ==
  LET voices == SortedSet(DOMAIN notes)
      trial == [v \in DOMAIN notes |->
                  merge_with_voice(notes[v], other, measure_start)]
      merged == [v \in DOMAIN notes |-> trial[v].result]
      cost == [v \in DOMAIN notes |-> trial[v].cost]
  IN IF voices = <<>>
     THEN [ok |-> FALSE, err |-> "IndexError", cost |-> cost,
           merge_voice |-> 0, runs |-> <<>>, contents |-> <<>>,
           pos |-> measure_start]
     ELSE LET merge_voice == LowestCostVoice(voices, cost)
              runs == RunLoop(notes, attributes, merged, merge_voice, voices,
                              measure_start, 1, measure_start, <<>>)
          IN [ok |-> TRUE, err |-> "", cost |-> cost,
              merge_voice |-> merge_voice, runs |-> runs,
              contents |-> Flatten([r \in 1..Len(runs) |->
                                      runs[r].marker \o runs[r].elements]),
              pos |-> runs[Len(runs)].after]

\* no note element built yet
NoElement ==
  [hasId |-> FALSE, id |-> <<>>, given |-> <<>>, links |-> <<FALSE, FALSE>>,
   ties |-> <<>>, notations |-> <<>>]

\* ================================================================ the timeline
VARIABLES
  notes,    \* the part's notes, in the order the timeline returns them
  others,   \* its fermatas, repeats, endings and directions, in that order
  attrs,    \* its Divisions and other attribute changes, in that order
  pc,       \* to_musicxml: "measures", "done" or "raised"
  err,      \* the exception that ended the call
  mi,       \* the measures linearized so far
  segs,     \* the sub-segments of the measure linearized last
  written,  \* the document has been written to the sink / returned
  counter,  \* the dict shared by all make_note_el calls of one export
  note_e,   \* the note element make_note_el built last
  made,     \* the number of make_note_el calls so far
  carried,  \* history: how many notes carrying each id were handed in
  emitted,  \* history: how many note elements were given each id attribute
  opened,   \* history: the number on the start tag of each slur since
            \* started and not stopped by a tag
  barlined  \* history: how often each fermata was put into a barline

vars == <<notes, others, attrs, pc, err, mi, segs, written, counter, note_e,
          made, carried, emitted, opened, barlined>>

\* TimePoint.next on a timeline with a point at every tick
NextPoint(t) == t + 1

\* timeline.get_all(cls, start, end): the indices of the objects of a kind
\* that start in [start, end), in the timeline's order
GetAll(objs, kinds, start, end) ==
  SelectSeq([i \in 1..Len(objs) |-> i],
            LAMBDA i : /\ objs[i].kind \in kinds
                       /\ objs[i].hasStart
                       /\ start <= objs[i].start /\ objs[i].start < end)

\* timeline.get_all_ending(cls, start, end): those that end in [start, end)
GetAllEnding(objs, kinds, start, end) ==
  SelectSeq([i \in 1..Len(objs) |-> i],
            LAMBDA i : /\ objs[i].kind \in kinds
                       /\ objs[i].hasEnd
                       /\ start <= objs[i].end /\ objs[i].end < end)

\* timeline.get_all(score.GenericNote, start, end, include_subclasses=True)
GetAllNotes(start, end) ==
  SelectSeq([i \in 1..Len(notes) |-> i],
            LAMBDA i : start <= notes[i].start /\ notes[i].start < end)

\* ------------------------------------------------------ group_notes_by_voice
\* hasattr(n, 'voice') for every note
AllHaveVoice(idx) == \A i \in Range(idx) : notes[i].vkind # "absent"

\* the dict key of a note: its voice, None being written 0 (the voices of the
\* model are 1..MaxVoice)
VoiceKey(n) == IF n.vkind = "none" THEN 0 ELSE n.voice

group_notes_by_voice(idx) ==
  [v \in {VoiceKey(notes[i]) : i \in Range(idx)} |->
      SelectSeq(idx, LAMBDA i : VoiceKey(notes[i]) = v)]

\* sorted(voices) raises TypeError on a set that mixes None and integers
Sortable(keys) == ~(0 \in keys /\ keys # {0})

\* ------------------------------------------------------------- do_barlines
RefsInRange == {"none", "left", "middle", "right"}
RefsAtEnd == {"none", "right"}

\* the fermatas collected for [start, end): those inside, then those at end
FermataOf(start, end) ==
  SelectSeq(GetAll(others, {"fermata"}, start, end),
            LAMBDA i : others[i].ref \in RefsInRange)
  \o SelectSeq(GetAll(others, {"fermata"}, end, NextPoint(end)),
               LAMBDA i : others[i].ref \in RefsAtEnd)

Kid(tag, onset, src) == [tag |-> tag, onset |-> onset, src |-> src]

\* the children appended to by_onset, in the order of the five loops
BarlineKids(start, end) ==
  LET fermata == FermataOf(start, end)
      repeat_start == GetAll(others, {"repeat"}, start, end)
      repeat_end == GetAllEnding(others, {"repeat"}, NextPoint(start),
                                 NextPoint(end))
      ending_start == GetAll(others, {"ending"}, start, end)
      ending_end == GetAllEnding(others, {"ending"}, NextPoint(start),
                                 NextPoint(end))
  IN [k \in 1..Len(fermata) |->
         Kid("fermata", others[fermata[k]].start, fermata[k])]
     \o [k \in 1..Len(repeat_start) |->
         Kid("repeat-forward", others[repeat_start[k]].start, repeat_start[k])]
     \o [k \in 1..Len(ending_start) |->
         Kid("ending-start", others[ending_start[k]].start, ending_start[k])]
     \o [k \in 1..Len(repeat_end) |->
         Kid("repeat-backward", others[repeat_end[k]].end, repeat_end[k])]
     \o [k \in 1..Len(ending_end) |->
         Kid("ending-stop", others[ending_end[k]].end, ending_end[k])]

\* the location attribute of the barline at onset, for the range [start, end)
Location(onset, start, end) ==
  IF onset = start THEN "left"
  ELSE IF onset = end THEN "right"
  ELSE "middle"

do_barlines(start, end) ==
  LET kids == BarlineKids(start, end)
      onsets == SortedSet({k.onset : k \in Range(kids)})
  IN [p \in 1..Len(onsets) |->
        [Elem("barline", onsets[p], 0, TRUE, 0) EXCEPT
           !.attr = Location(onsets[p], start, end),
           !.kids = SelectSeq(kids, LAMBDA k : k.onset = onsets[p])]]

\* ------------------------------------------------------------- do_directions
RECURSIVE DirectionLoop(_, _)
DirectionLoop(dirs, k) ==
  IF k > Len(dirs) THEN <<>>
  ELSE LET d == others[dirs[k]]
       IN <<[Elem("direction", d.start, 0, TRUE, dirs[k]) EXCEPT
               !.attr = "words"]>>
          \o (IF d.hasEnd
              THEN <<[Elem("direction", d.end, 0, TRUE, dirs[k]) EXCEPT
                        !.attr = "dashes-stop"]>>
              ELSE <<>>)
          \o DirectionLoop(dirs, k + 1)

do_directions(start, end) ==
  DirectionLoop(GetAll(others, {"direction"}, start, end), 1)

\* ------------------------------------------------------------- do_attributes
\* Divisions first, then the key/time/clef changes ("key" stands for the three)
do_attributes(start, end) ==
  LET attributes == GetAll(attrs, {"divisions"}, start, end)
                    \o GetAll(attrs, {"key"}, start, end)
      onsets == SortedSet({attrs[i].start : i \in Range(attributes)})
  IN [p \in 1..Len(onsets) |->
        [Elem("attributes", onsets[p], 0, TRUE, 0) EXCEPT
           !.kids = LET at == SelectSeq(attributes,
                                 LAMBDA i : attrs[i].start = onsets[p])
                    IN [k \in 1..Len(at) |->
                          Kid(attrs[at[k]].kind, onsets[p], at[k])]]]

\* --------------------------------------------------- linearize_segment_contents
\* a sort by start only, which would leave the grace notes where they were
SortByStartOnly(idx) ==
  StableSortBy(idx, [k \in 1..Len(idx) |-> notes[idx[k]].start])

\* voice_notes.sort(key=not grace); voice_notes.sort(key=start.t)
SortVoiceNotes(idx) ==
  LET byGrace == StableSortBy(idx, [k \in 1..Len(idx) |->
                                      IF notes[idx[k]].grace THEN 0 ELSE 1])
  IN StableSortBy(byGrace, [k \in 1..Len(byGrace) |-> notes[byGrace[k]].start])

\* voices_e[voice]: the note tuples of a voice, chord tags added
VoiceElems(idx) ==
  LET sorted == SortVoiceNotes(idx)
  IN add_chord_tags([k \in 1..Len(sorted) |-> do_note(notes[sorted[k]],
                                                      sorted[k])])

Raised(start, end, e) ==
  [ok |-> FALSE, err |-> e, start |-> start, end |-> end, voices_e |-> <<>>,
   attributes_e |-> <<>>, other_e |-> <<>>, cost |-> <<>>, merge_voice |-> 0,
   runs |-> <<>>, contents |-> <<>>, pos |-> start]

linearize_segment_contents(start, end) ==
  LET idx == GetAllNotes(start, end)
  IN IF ~AllHaveVoice(idx) THEN Raised(start, end, "NotImplementedError")
     ELSE LET notes_by_voice == group_notes_by_voice(idx)
          IN IF ~Sortable(DOMAIN notes_by_voice)
             THEN Raised(start, end, "TypeError")
             ELSE LET voices_e == [v \in DOMAIN notes_by_voice |->
                                     VoiceElems(notes_by_voice[v])]
                      attributes_e == do_attributes(start, end)
                      other_e == do_directions(start, end)
                                 \o do_barlines(start, end)
                      m == merge_measure_contents(voices_e, attributes_e,
                                                  other_e, start)
                  IN [ok |-> m.ok, err |-> m.err, start |-> start,
                      end |-> end, voices_e |-> voices_e,
                      attributes_e |-> attributes_e, other_e |-> other_e,
                      cost |-> m.cost, merge_voice |-> m.merge_voice,
                      runs |-> m.runs, contents |-> m.contents, pos |-> m.pos]

\* --------------------------------------------------- linearize_measure_contents
RECURSIVE SplitLoop(_, _, _)
SplitLoop(divisions, k, splits) ==
  IF k > Len(divisions) THEN splits
  ELSE LET d == attrs[divisions[k]].start
       IN SplitLoop(divisions, k + 1,
                    IF d # splits[Len(splits)] THEN Append(splits, d)
                    ELSE splits)

Splits(start, end) ==
  Append(SplitLoop(GetAll(attrs, {"divisions"}, start, end), 1, <<start>>),
         end)

\* the sub-segments in order, up to and including the first that raises
RECURSIVE SegmentLoop(_, _, _)
SegmentLoop(splits, i, done) ==
  IF i > Len(splits) THEN done
  ELSE LET seg == linearize_segment_contents(splits[i - 1], splits[i])
       IN IF seg.ok THEN SegmentLoop(splits, i + 1, Append(done, seg))
          ELSE Append(done, seg)

linearize_measure_contents(start, end) ==
  SegmentLoop(Splits(start, end), 2, <<>>)

\* ================================================================ to_musicxml
\* the measures of the part tile its timeline
MeasureStart(m) == (m - 1) * MeasureLen
MeasureEnd(m) == m * MeasureLen

\* the fermatas (indices into others) in the barlines of the output of a
\* measure, one entry per occurrence
FermatasIn(r) ==
  LET out == Flatten([k \in 1..Len(r) |-> r[k].contents])
      bars == SelectSeq(out, LAMBDA x : x.tag = "barline")
      kids == Flatten([b \in 1..Len(bars) |-> bars[b].kids])
      ferm == SelectSeq(kids, LAMBDA c : c.tag = "fermata")
  IN [c \in 1..Len(ferm) |-> ferm[c].src]

RECURSIVE Barlined(_, _)
Barlined(seen, srcs) ==
  IF srcs = <<>> THEN seen
  ELSE Barlined([i \in DOMAIN seen \cup {Head(srcs)} |->
                   (IF i \in DOMAIN seen THEN seen[i] ELSE 0)
                   + (IF i = Head(srcs) THEN 1 ELSE 0)],
                Tail(srcs))

\* one pass of the loop over part.list_all(score.Measure): the measure is
\* linearized and appended, or the exception leaves to_musicxml
LinearizeMeasure ==
  /\ pc = "measures"
  /\ mi < NumMeasures
  /\ \E r \in {linearize_measure_contents(MeasureStart(mi + 1),
                                           MeasureEnd(mi + 1))} :
     LET last == r[Len(r)]
     IN /\ segs' = r
        /\ IF last.ok
           THEN /\ mi' = mi + 1
                /\ UNCHANGED <<pc, err>>
           ELSE /\ pc' = "raised"
                /\ err' = last.err
                /\ UNCHANGED mi
        /\ barlined' = Barlined(barlined, FermatasIn(r))
  /\ UNCHANGED <<notes, others, attrs, written, counter, note_e, made,
                 carried, emitted, opened>>

\* a sink that would be written measure by measure, before the loop is over
SerializeEarly ==
  /\ pc = "measures"
  /\ written' = TRUE
  /\ pc' = IF mi = NumMeasures THEN "done" ELSE pc
  /\ UNCHANGED <<notes, others, attrs, err, mi, segs, counter, note_e, made,
                 carried, emitted, opened, barlined>>

\* after the loops: the tree is serialized to out, or returned
Serialize ==
  /\ pc = "measures"
  /\ mi = NumMeasures
  /\ pc' = "done"
  /\ written' = TRUE
  /\ UNCHANGED <<notes, others, attrs, err, mi, segs, counter, note_e, made,
                 carried, emitted, opened, barlined>>

Next == LinearizeMeasure \/ Serialize

\* ------------------------------------------------------------ the input parts
Note(start, dur, grace, vkind, voice) ==
  [start |-> start, dur |-> dur, grace |-> grace, vkind |-> vkind,
   voice |-> voice]

\* the notes that may start in the measure starting at o: grace notes and
\* notes of 1..MaxDur ticks, in a voice of 1..MaxVoice
VoicedNotes(o) ==
  {Note(t, 0, TRUE, "int", v) : t \in o..(o + MeasureLen - 1), v \in 1..MaxVoice}
  \cup {Note(t, d, FALSE, "int", v) :
          t \in o..(o + MeasureLen - 1), d \in 1..MaxDur, v \in 1..MaxVoice}

Other(kind, hasStart, start, hasEnd, end, ref) ==
  [kind |-> kind, hasStart |-> hasStart, start |-> start, hasEnd |-> hasEnd,
   end |-> end, ref |-> ref]

\* a fermata at a tick of [o, o + MeasureLen], free-standing or tied to a note
Fermatas(o) ==
  {Other("fermata", TRUE, t, FALSE, 0, r) :
     t \in o..(o + MeasureLen), r \in {"none", "left", "right", "note"}}

\* a repeat or an ending with a start, an end, or both
Repeats(o) ==
  {Other(k, TRUE, t, FALSE, 0, "none") :
     k \in {"repeat", "ending"}, t \in o..(o + MeasureLen - 1)}
  \cup {Other(k, FALSE, 0, TRUE, t, "none") :
     k \in {"repeat", "ending"}, t \in (o + 1)..(o + MeasureLen)}
  \cup {Other(k, TRUE, o, TRUE, t, "none") :
     k \in {"repeat", "ending"}, t \in (o + 1)..(o + MeasureLen)}

\* a direction starting in the measure, open-ended or ending at a later tick
Directions(o) ==
  {Other("direction", TRUE, t, FALSE, 0, "none") : t \in o..(o + MeasureLen - 1)}
  \cup UNION {{Other("direction", TRUE, t, TRUE, u, "none") :
                  u \in (t + 1)..(o + MeasureLen + 1)} :
                t \in o..(o + MeasureLen - 1)}

Attr(kind, start) == [kind |-> kind, hasStart |-> TRUE, start |-> start]

Attrs(o) == {Attr(k, t) : k \in {"divisions", "key"},
                          t \in o..(o + MeasureLen - 1)}

\* the other measures of the part hold one note of voice 1 filling the measure
Fillers(f) ==
  LET ms == SortedSet((1..NumMeasures) \ {f})
  IN [k \in 1..Len(ms) |->
        Note(MeasureStart(ms[k]), MeasureLen, FALSE, "int", 1)]

InitPart(f, ns, os, as) ==
  /\ notes = ns \o Fillers(f)
  /\ others = os
  /\ attrs = as
  /\ pc = "measures"
  /\ err = ""
  /\ mi = 0
  /\ segs = <<>>
  /\ written = FALSE
  /\ counter = <<>>
  /\ note_e = NoElement
  /\ made = 0
  /\ carried = <<>>
  /\ emitted = <<>>
  /\ opened = <<>>
  /\ barlined = <<>>

\* a part with up to MaxNotes notes and at most one marker in one measure
Init ==
  \E f \in 1..NumMeasures :
    \E ns \in SeqsUpTo(VoicedNotes(MeasureStart(f)), MaxNotes) :
      \/ InitPart(f, ns, <<>>, <<>>)
      \/ \E x \in Fermatas(MeasureStart(f)) : InitPart(f, ns, <<x>>, <<>>)
      \/ \E x \in Repeats(MeasureStart(f)) : InitPart(f, ns, <<x>>, <<>>)
      \/ \E x \in Directions(MeasureStart(f)) : InitPart(f, ns, <<x>>, <<>>)
      \/ \E a \in Attrs(MeasureStart(f)) : InitPart(f, ns, <<>>, <<a>>)

Spec == Init /\ [][Next]_vars

\* a part whose measure holds a note of one tick at every tick, up to two
\* barline markers and at most one attribute change
UnitNotes(f) ==
  [k \in 1..MeasureLen |-> Note(MeasureStart(f) + k - 1, 1, FALSE, "int", 1)]

InitBar ==
  \E f \in 1..NumMeasures :
    \E os \in SeqsUpTo(Fermatas(MeasureStart(f)) \cup Repeats(MeasureStart(f)),
                       2) :
      \E as \in SeqsUpTo(Attrs(MeasureStart(f)), 1) :
        InitPart(f, UnitNotes(f), os, as)

SpecBar == InitBar /\ [][Next]_vars

\* a part with up to MaxRunNotes notes in one measure and nothing else
InitRuns ==
  \E f \in 1..NumMeasures :
    \E ns \in SeqsUpTo(VoicedNotes(MeasureStart(f)), MaxRunNotes) :
      InitPart(f, ns, <<>>, <<>>)

SpecRuns == InitRuns /\ [][Next]_vars

\* a part with a voice of unit notes and up to MaxDivs attribute changes in
\* one measure, in any order of the timeline
InitDivs ==
  \E f \in 1..NumMeasures :
    \E as \in SeqsUpTo(Attrs(MeasureStart(f)), MaxDivs) :
      InitPart(f, UnitNotes(f), <<>>, as)

SpecDivs == InitDivs /\ [][Next]_vars

\* a part with up to MaxChordNotes unit and grace notes of one voice on the
\* first two ticks of one measure
ChordNotes(o) ==
  {Note(t, 1, g, "int", 1) : t \in o..(o + 1), g \in BOOLEAN}

InitChord ==
  \E f \in 1..NumMeasures :
    \E ns \in SeqsUpTo(ChordNotes(MeasureStart(f)), MaxChordNotes) :
      InitPart(f, ns, <<>>, <<>>)

SpecChord == InitChord /\ [][Next]_vars

\* a part whose notes may lack the voice attribute or hold None in it
AnyNotes(o) ==
  VoicedNotes(o)
  \cup {Note(t, 0, TRUE, k, 0) :
          t \in o..(o + MeasureLen - 1), k \in {"none", "absent"}}
  \cup {Note(t, d, FALSE, k, 0) :
          t \in o..(o + MeasureLen - 1), d \in 1..MaxDur,
          k \in {"none", "absent"}}

InitVoice ==
  \E f \in 1..NumMeasures :
    \E ns \in SeqsUpTo(AnyNotes(MeasureStart(f)), MaxNotes) :
      InitPart(f, ns, <<>>, <<>>)

SpecVoice == InitVoice /\ [][Next]_vars

\* ================================================================ make_note_el
\* The keys of counter: note ids and Slur objects.  A note id is a string,
\* written as the list of its "_N" suffixes (<<>> the bare id, <<2>> the
\* id followed by "_2"); slur k is the object <<k>>.
IdKey(id) == [slur |-> FALSE, k |-> id]
SlurKey(sl) == [slur |-> TRUE, k |-> <<sl>>]

Put(c, key, v) == [x \in DOMAIN c \cup {key} |-> IF x = key THEN v ELSE c[x]]
\* a removal that would leave the entry in place
DelNothing(c, key) == c

Del(c, key) == [x \in DOMAIN c \ {key} |-> c[x]]

\* the numbers held by the slurs of the table
HeldNumbers(c) == {c[x] : x \in {y \in DOMAIN c : y.slur}}

\* an id attribute that would count the repetitions but never suffix them
NoteIdUnsuffixed(note, c) ==
  IF ~note.hasId THEN [counter |-> c, hasId |-> FALSE, id |-> <<>>]
  ELSE LET key == IdKey(note.id)
           n == (IF key \in DOMAIN c THEN c[key] ELSE 0) + 1
       IN [counter |-> Put(c, key, n), hasId |-> TRUE, id |-> note.id]

\* lines 29-36: the id attribute, and the counter after it
NoteId(note, c) ==
  IF ~note.hasId THEN [counter |-> c, hasId |-> FALSE, id |-> <<>>]
  ELSE LET key == IdKey(note.id)
           n == (IF key \in DOMAIN c THEN c[key] ELSE 0) + 1
       IN [counter |-> Put(c, key, n), hasId |-> TRUE,
           id |-> IF n > 1 THEN Append(note.id, n) ELSE note.id]

Slur(type, number, sl, c) ==
  [tag |-> "slur", type |-> type, number |-> number, slur |-> sl,
   known |-> SlurKey(sl) \in DOMAIN c, held |-> HeldNumbers(c)]

\* etree.Element('tied', type=...)
Tied(type) ==
  [tag |-> "tied", type |-> type, number |-> 0, slur |-> 0, known |-> FALSE,
   held |-> {}]

\* tie children that would follow tie_next alone
TiesNextOnly(note) == IF note.tie_next THEN <<"start">> ELSE <<>>

\* lines 71-77: the types of the tie children, in document order; the tied
\* notations are appended to notations in the same order
Ties(note) ==
  (IF note.tie_prev THEN <<"stop">> ELSE <<>>)
  \o (IF note.tie_next THEN <<"start">> ELSE <<>>)

TiedNotations(note) ==
  LET ties == Ties(note) IN [j \in 1..Len(ties) |-> Tied(ties[j])]

\* 1 + sum(1 for o in counter.keys() if isinstance(o, score.Slur))
NewSlurNumber(c) == 1 + Cardinality({x \in DOMAIN c : x.slur})

\* for slur in note.slur_stops
RECURSIVE StopLoop(_, _, _, _)
StopLoop(c, stops, i, notations) ==
  IF i > Len(stops) THEN [counter |-> c, notations |-> notations]
  ELSE LET key == SlurKey(stops[i])
       IN IF key \notin DOMAIN c
          THEN StopLoop(Put(c, key, 1), stops, i + 1,
                        Append(notations, Slur("stop", 1, stops[i], c)))
          ELSE StopLoop(Del(c, key), stops, i + 1,
                        Append(notations, Slur("stop", c[key], stops[i], c)))

\* for slur in note.slur_starts
RECURSIVE StartLoop(_, _, _, _)
StartLoop(c, starts, i, notations) ==
  IF i > Len(starts) THEN [counter |-> c, notations |-> notations]
  ELSE LET key == SlurKey(starts[i])
       IN IF key \notin DOMAIN c
          THEN StartLoop(Put(c, key, NewSlurNumber(c)), starts, i + 1,
                         Append(notations, Slur("start", NewSlurNumber(c),
                                                starts[i], c)))
          ELSE StartLoop(Del(c, key), starts, i + 1,
                         Append(notations, Slur("start", c[key], starts[i],
                                                c)))

make_note_el(note, c) ==
  LET withId == NoteId(note, c)
      stopped == StopLoop(withId.counter, note.slur_stops, 1,
                          TiedNotations(note))
      started == StartLoop(stopped.counter, note.slur_starts, 1,
                           stopped.notations)
  IN [counter |-> started.counter,
      el |-> [hasId |-> withId.hasId, id |-> withId.id, given |-> note.id,
              links |-> <<note.tie_prev, note.tie_next>>,
              ties |-> Ties(note), notations |-> started.notations]]

\* the notes handed to make_note_el
\* one more note element has been given the id attribute of el
Emit(out, el) ==
  IF ~el.hasId THEN out
  ELSE Put(out, el.id, (IF el.id \in DOMAIN out THEN out[el.id] ELSE 0) + 1)

\* the slur tags of an element applied to the record of the open slurs
RECURSIVE Opened(_, _, _)
Opened(op, notations, j) ==
  IF j > Len(notations) THEN op
  ELSE LET t == notations[j]
       IN Opened(IF t.tag # "slur" THEN op
                 ELSE IF t.type = "start" THEN Put(op, t.slur, t.number)
                 ELSE [x \in DOMAIN op \ {t.slur} |-> op[x]],
                 notations, j + 1)

\* one more note carrying note.id has been handed to make_note_el
Carry(seen, note) ==
  IF ~note.hasId THEN seen
  ELSE Put(seen, note.id, (IF note.id \in DOMAIN seen THEN seen[note.id]
                           ELSE 0) + 1)

NoteInputs ==
  {[hasId |-> h, id |-> i, tie_prev |-> tp, tie_next |-> tn,
    slur_stops |-> sp, slur_starts |-> st] :
     h \in {TRUE}, i \in {<<>>, <<2>>}, tp \in BOOLEAN, tn \in BOOLEAN,
     sp \in SeqsUpTo(1..MaxSlurs, MaxOps), st \in SeqsUpTo(1..MaxSlurs, MaxOps)}
  \cup
  {[hasId |-> FALSE, id |-> <<>>, tie_prev |-> tp, tie_next |-> tn,
    slur_stops |-> sp, slur_starts |-> st] :
     tp \in BOOLEAN, tn \in BOOLEAN,
     sp \in SeqsUpTo(1..MaxSlurs, MaxOps), st \in SeqsUpTo(1..MaxSlurs, MaxOps)}

MakeNoteEl ==
  /\ pc = "notes"
  /\ made < MaxNoteCalls
  /\ \E note \in NoteInputs :
       \E r \in {make_note_el(note, counter)} :
         /\ counter' = r.counter
         /\ note_e' = r.el
         /\ carried' = Carry(carried, note)
         /\ emitted' = Emit(emitted, r.el)
         /\ opened' = Opened(opened, r.el.notations, 1)
  /\ made' = made + 1
  /\ UNCHANGED <<notes, others, attrs, pc, err, mi, segs, written, barlined>>

InitNote ==
  /\ notes = <<>>
  /\ others = <<>>
  /\ attrs = <<>>
  /\ pc = "notes"
  /\ err = ""
  /\ mi = 0
  /\ segs = <<>>
  /\ written = FALSE
  /\ counter = <<>>
  /\ note_e = NoElement
  /\ made = 0
  /\ carried = <<>>
  /\ emitted = <<>>
  /\ opened = <<>>
  /\ barlined = <<>>

NextNote == MakeNoteEl

SpecNote == InitNote /\ [][NextNote]_vars

\* the same calls on a score whose slurs are properly paired: every slur
\* stopped is in the table, every slur started is not, none is named twice
Paired(note, c) ==
  /\ \A i \in 1..Len(note.slur_stops) : SlurKey(note.slur_stops[i]) \in DOMAIN c
  /\ \A i \in 1..Len(note.slur_starts) :
       SlurKey(note.slur_starts[i]) \notin DOMAIN c
  /\ \A i, j \in 1..Len(note.slur_stops) :
       i # j => note.slur_stops[i] # note.slur_stops[j]
  /\ \A i, j \in 1..Len(note.slur_starts) :
       i # j => note.slur_starts[i] # note.slur_starts[j]

MakePairedNoteEl ==
  /\ pc = "notes"
  /\ made < MaxMade
  /\ \E note \in NoteInputs :
       /\ Paired(note, counter)
       /\ \E r \in {make_note_el(note, counter)} :
            /\ counter' = r.counter
            /\ note_e' = r.el
            /\ carried' = Carry(carried, note)
            /\ emitted' = Emit(emitted, r.el)
            /\ opened' = Opened(opened, r.el.notations, 1)
  /\ made' = made + 1
  /\ UNCHANGED <<notes, others, attrs, pc, err, mi, segs, written, barlined>>

NextSlur == MakePairedNoteEl

SpecSlur == InitNote /\ [][NextSlur]_vars

\* ====================================================================== claims
SmallestFree(held) ==
  CHOOSE n \in 1..(Cardinality(held) + 1) :
    n \notin held /\ \A m \in 1..(n - 1) : m \in held

\* C1: a slur 'start' tag for a slur that was not in the numbering table
\* carries the smallest positive number held by no slur of the table at that
\* moment (after slur1=1, slur2=2 and slur1's close, the next slur gets 1).
C1_StartGetsSmallestFreeNumber ==
  \A j \in 1..Len(note_e.notations) :
    LET t == note_e.notations[j]
    IN (t.tag = "slur" /\ t.type = "start" /\ ~t.known) =>
         t.number = SmallestFree(t.held)

\* C2: no two slurs that are in the numbering table at the same time hold
\* the same number.
C2_OpenSlursHoldDistinctNumbers ==
  \A x, y \in DOMAIN counter :
    (x.slur /\ y.slur /\ x # y) => counter[x] # counter[y]

\* ------------------------------------------------------------------ helpers
\* the measure linearized last is [ThisStart, ThisEnd)
ThisStart == segs[1].start
ThisEnd == ThisStart + MeasureLen
MeasureDone == segs # <<>> /\ segs[Len(segs)].ok

NoJumpIn(elements) == \A j \in 1..Len(elements) : ~IsJump(elements[j])

RECURSIVE SumDur(_)
SumDur(idx) ==
  IF idx = <<>> THEN 0 ELSE notes[Head(idx)].dur + SumDur(Tail(idx))

\* exactly one voice, whose notes start at the measure start, touch end to
\* end and last the measure's length in sum (grace notes sit on note onsets)
OneVoiceTiled ==
  LET idx == GetAllNotes(ThisStart, ThisEnd)
      ng == {i \in Range(idx) : ~notes[i].grace}
  IN /\ ng # {}
     /\ Cardinality({VoiceKey(notes[i]) : i \in Range(idx)}) = 1
     /\ \E i \in ng : notes[i].start = ThisStart
     /\ \A i, j \in ng : i # j => notes[i].start # notes[j].start
     /\ \A i \in ng : \/ notes[i].start + notes[i].dur = ThisEnd
                      \/ \E j \in ng :
                           notes[j].start = notes[i].start + notes[i].dur
     /\ SumDur(idx) = MeasureLen
     /\ \A i \in Range(idx) :
          notes[i].grace => \E j \in ng : notes[j].start = notes[i].start

\* C3: a measure or sub-segment in which no note starts is linearized
\* without raising, with no forward/backup marker, and the export goes on.
C3_NoNoteSegmentCompletes ==
  \A k \in 1..Len(segs) :
    GetAllNotes(segs[k].start, segs[k].end) = <<>> =>
      /\ segs[k].ok
      /\ NoJumpIn(segs[k].contents)
      /\ pc # "raised"

\* C4 as stated: the output of a measure with one voice whose notes tile the
\* measure holds no forward and no backup marker.
C4_TiledVoiceNoJumps ==
  (MeasureDone /\ OneVoiceTiled) =>
    \A k \in 1..Len(segs) : NoJumpIn(segs[k].contents)

\* no direction is collected and every barline and attributes block lies on
\* a note onset or on the measure end
MarkersOnNoteBoundaries ==
  LET idx == GetAllNotes(ThisStart, ThisEnd)
      ticks == {notes[i].start : i \in Range(idx)} \cup {ThisEnd}
  IN \A k \in 1..Len(segs) :
       /\ \A j \in 1..Len(segs[k].other_e) :
            /\ segs[k].other_e[j].tag # "direction"
            /\ segs[k].other_e[j].onset \in ticks
       /\ \A j \in 1..Len(segs[k].attributes_e) :
            segs[k].attributes_e[j].onset \in ticks

\* C4 amended: the output of a measure with one voice whose notes tile the
\* measure, for which no direction is collected and every barline and
\* attributes block lies on a note onset or on the measure end, holds no
\* forward and no backup marker.
C4_TiledVoiceNoJumpsAmended ==
  (MeasureDone /\ OneVoiceTiled /\ MarkersOnNoteBoundaries) =>
    \A k \in 1..Len(segs) : NoJumpIn(segs[k].contents)

\* two notes tiling the measure, with a barline between them
C4_Witness ==
  /\ MeasureDone /\ OneVoiceTiled /\ MarkersOnNoteBoundaries
  /\ Len(GetAllNotes(ThisStart, ThisEnd)) >= 2
  /\ \E k \in 1..Len(segs) : \E j \in 1..Len(segs[k].contents) :
       /\ segs[k].contents[j].tag = "barline"
       /\ segs[k].contents[j].attr = "middle"

\* ------------------------------------------------------------------ chords
\* the trial merge of voice v of a sub-segment
Trial(seg, v) == merge_with_voice(seg.voices_e[v], seg.other_e, seg.start)

\* the note of a voice that opens the group of non-grace notes at an onset
GroupHead(ve, onset) ==
  ve[CHOOSE i \in 1..Len(ve) :
       /\ ~ve[i].grace /\ ve[i].onset = onset
       /\ \A j \in 1..(i - 1) : ve[j].grace \/ ve[j].onset # onset]

\* among the non-grace notes of a voice at one onset, the first carries no
\* chord marker and every later one does
ChordTagsRight(ve) ==
  \A j \in 1..Len(ve) :
    ~ve[j].grace =>
      (ve[j].chord <=> \E i \in 1..(j - 1) :
                         ~ve[i].grace /\ ve[i].onset = ve[j].onset)

\* after the last chord-tagged note of a group the cursor of the trial merge
\* stands at the group's onset + the duration of its non-chord note
CursorAfterGroups(ve, trial) ==
  \A p \in 1..Len(trial.result) :
    LET x == trial.result[p]
        last == \/ p = Len(trial.result)
                \/ ~(trial.result[p + 1].tag = "note"
                     /\ trial.result[p + 1].chord)
    IN (x.tag = "note" /\ x.chord /\ last) =>
         trial.cursors[p] = x.onset + GroupHead(ve, x.onset).dur

\* C5: of the non-grace notes of a voice sharing an onset, the first carries
\* no chord marker and the later ones do, and the cursor of merge_with_voice
\* stands after the group at onset + duration of the non-chord note.
C5_ChordGroupAdvancesOnce ==
  \A k \in 1..Len(segs) :
    segs[k].ok =>
      \A v \in DOMAIN segs[k].voices_e :
        /\ ChordTagsRight(segs[k].voices_e[v])
        /\ CursorAfterGroups(segs[k].voices_e[v], Trial(segs[k], v))

\* ------------------------------------------------------------ host selection
\* the jump units hosting the other elements adds to those the voice's own
\* notes need
ExtraCost(seg, v) ==
  Trial(seg, v).cost - merge_with_voice(seg.voices_e[v], <<>>, seg.start).cost

HostChosen(seg) ==
  seg.ok /\ Cardinality(DOMAIN seg.voices_e) >= 2 /\ seg.other_e # <<>>

\* C6 as stated: the host is a voice for which hosting the directions and
\* barlines needs the fewest extra jump units.
C6_HostHasFewestExtraJumps ==
  \A k \in 1..Len(segs) :
    HostChosen(segs[k]) =>
      \A v \in DOMAIN segs[k].voices_e :
        ExtraCost(segs[k], segs[k].merge_voice) <= ExtraCost(segs[k], v)

\* C6 amended: the host is a voice whose trial merge (its own notes together
\* with the directions and barlines) needs the fewest jump units in total.
C6_HostHasFewestTotalJumps ==
  \A k \in 1..Len(segs) :
    HostChosen(segs[k]) =>
      \A v \in DOMAIN segs[k].voices_e :
        Trial(segs[k], segs[k].merge_voice).cost <= Trial(segs[k], v).cost

\* voice 2 hosts at no cost what would cost voice 1 three jump units
C6_Witness ==
  \E k \in 1..Len(segs) :
    /\ HostChosen(segs[k])
    /\ segs[k].merge_voice = 2
    /\ Trial(segs[k], 2).cost = 0
    /\ Trial(segs[k], 1).cost = 3

\* ------------------------------------------------------------------ runs
IsMarker(x) == x.tag \in {"direction", "barline"}

\* C7: directions and barlines appear only in the run of the host voice: the
\* run of a non-host voice holds none, and the run of a non-host voice other
\* than the lowest holds exactly the voice's own notes in their order.
C7_OnlyHostRunHoldsMarkers ==
  \A k \in 1..Len(segs) :
    segs[k].ok =>
      \A r \in 1..Len(segs[k].runs) :
        LET run == segs[k].runs[r]
        IN run.voice # segs[k].merge_voice =>
             /\ \A j \in 1..Len(run.elements) : ~IsMarker(run.elements[j])
             /\ r > 1 => run.elements = segs[k].voices_e[run.voice]

\* two voices and a direction or barline, hosted by the lower voice
C7_Witness ==
  \E k \in 1..Len(segs) :
    /\ HostChosen(segs[k])
    /\ segs[k].merge_voice = 1
    /\ Len(segs[k].runs) = 2
    /\ \E j \in 1..Len(segs[k].runs[1].elements) :
         IsMarker(segs[k].runs[1].elements[j])

\* ------------------------------------------------------------- sub-segments
\* C8: when a divisions change splits a measure at tick m, the cursor at the
\* end of a sub-segment's output is m, where the next one is laid out from.
C8_SubSegmentsAbut ==
  MeasureDone =>
    \A k \in 1..(Len(segs) - 1) : segs[k].pos = segs[k + 1].start

\* ------------------------------------------------------------- barlines
\* C9: a barline emitted for the measure [s, e) has location 'left' exactly
\* at tick s, 'right' exactly at tick e and 'middle' strictly between,
\* whether or not a divisions change splits the measure.
C9_LocationIsRelativeToMeasure ==
  \A k \in 1..Len(segs) :
    segs[k].ok =>
      \A j \in 1..Len(segs[k].contents) :
        LET x == segs[k].contents[j]
        IN x.tag = "barline" =>
             x.attr = Location(x.onset, ThisStart, ThisEnd)

\* ------------------------------------------------------------- voices
\* the notes starting in the range [start, end)
StartingIn(start, end) ==
  {i \in 1..Len(notes) : start <= notes[i].start /\ notes[i].start < end}

\* the notes that reached the output of a sub-segment
Exported(seg) ==
  {seg.contents[j].src : j \in {p \in 1..Len(seg.contents) :
                                   seg.contents[p].tag = "note"}}

\* C10: a sub-segment in which a note without a voice (attribute absent or
\* None) starts raises the missing-voice error, which ends the export, and
\* no note without a voice is grouped and exported.
C10_MissingVoiceAborts ==
  \A k \in 1..Len(segs) :
    /\ (\E i \in StartingIn(segs[k].start, segs[k].end) :
          notes[i].vkind # "int")
         => /\ ~segs[k].ok
            /\ segs[k].err = "NotImplementedError"
            /\ pc = "raised"
    /\ segs[k].ok => \A i \in Exported(segs[k]) : notes[i].vkind = "int"

\* ------------------------------------------------------ slur stops, ids, ties
IsSlur(t, type) == t.tag = "slur" /\ t.type = type

\* C11: a slur stop for a slur that is not in the numbering table is
\* skipped: no slur 'stop' tag is emitted for it, and the slur holds no
\* entry of the table once the stops of the note have been handled.
C11_DanglingStopIsSkipped ==
  \A j \in 1..Len(note_e.notations) :
    LET t == note_e.notations[j]
        restarted == \E i \in 1..Len(note_e.notations) :
                       /\ IsSlur(note_e.notations[i], "start")
                       /\ note_e.notations[i].slur = t.slur
    IN (IsSlur(t, "stop") /\ ~t.known) =>
         /\ FALSE
         /\ restarted \/ SlurKey(t.slur) \notin DOMAIN counter

\* the id make_note_el is to emit for the n-th note carrying id
Suffixed(id, n) == IF n > 1 THEN Append(id, n) ELSE id

\* C12: within one export the first note carrying an id is emitted with the
\* id unchanged and the N-th note carrying it with the id suffixed _N.
C12_NthDuplicateGetsSuffixN ==
  note_e.hasId =>
    /\ note_e.given \in DOMAIN carried
    /\ note_e.id = Suffixed(note_e.given, carried[note_e.given])

\* a third note carrying the same id has been emitted
C12_Witness ==
  /\ note_e.hasId
  /\ note_e.given \in DOMAIN carried
  /\ carried[note_e.given] = 3
  /\ note_e.id = Append(note_e.given, 3)

\* the tied notations of an element, in order
TiedOf(el) ==
  LET tied == SelectSeq(el.notations, LAMBDA t : t.tag = "tied")
  IN [j \in 1..Len(tied) |-> tied[j].type]

\* C14: a note element holds a tie 'stop' and a tied 'stop' exactly when
\* tie_prev is set and a tie 'start' and a tied 'start' exactly when tie_next
\* is set, stop before start; with neither link it holds no tie or tied.
C14_TiesFollowLinks ==
  made > 0 =>
    /\ TiedOf(note_e) = note_e.ties
    /\ note_e.ties = (IF note_e.links[1] THEN <<"stop">> ELSE <<>>)
                     \o (IF note_e.links[2] THEN <<"start">> ELSE <<>>)

\* a note tied to both sides, which also ends one slur and begins another
C14_Witness ==
  /\ made > 0
  /\ note_e.links = <<TRUE, TRUE>>
  /\ note_e.ties = <<"stop", "start">>
  /\ \E j \in 1..Len(note_e.notations) : IsSlur(note_e.notations[j], "stop")
  /\ \E j \in 1..Len(note_e.notations) : IsSlur(note_e.notations[j], "start")

\* C15: a slur start for a slur that is already in the numbering table is
\* an error: it is not numbered and emitted as an ordinary slur start.
C15_DuplicateStartIsAnError ==
  \A j \in 1..Len(note_e.notations) :
    LET t == note_e.notations[j]
    IN IsSlur(t, "start") => ~t.known

\* ------------------------------------------------------------- atomicity
\* C13: the export completes or fails atomically: when linearizing a measure
\* has raised nothing has been written to the sink, which is written only
\* after every measure has been linearized.
C13_NothingWrittenUnlessAllLinearized ==
  /\ pc = "raised" => ~written
  /\ written => (pc = "done" /\ mi = NumMeasures)

\* a later measure raises after an earlier one was linearized
C13_Witness ==
  pc = "raised" /\ mi >= 1 /\ ~written

\* ------------------------------------------------------------- the cursor
\* the element list replayed from a cursor: a non-chord note advances the
\* cursor by its duration, a forward by +d, a backup by -d, anything else by
\* 0; every non-chord note must be met with the cursor on its onset
RECURSIVE ReplayOk(_, _, _)
ReplayOk(elements, i, cursor) ==
  IF i > Len(elements) THEN TRUE
  ELSE LET x == elements[i]
       IN IF IsJump(x) THEN ReplayOk(elements, i + 1, cursor + x.dur)
          ELSE IF x.tag = "note" /\ ~x.chord
          THEN /\ cursor = x.onset
               /\ ReplayOk(elements, i + 1, cursor + DurOrZero(x))
          ELSE ReplayOk(elements, i + 1, cursor)

\* C16: replaying the element list of a sub-segment from its start, every
\* non-chord note is reached exactly when the cursor equals its onset, in
\* every voice.
C16_ReplayReachesEveryNote ==
  \A k \in 1..Len(segs) :
    segs[k].ok => ReplayOk(segs[k].contents, 1, segs[k].start)

\* ------------------------------------------------------------- the cost
Abs(n) == IF n < 0 THEN -n ELSE n

\* the sum of the magnitudes of the forward and backup markers of a list
RECURSIVE JumpSum(_)
JumpSum(elements) ==
  IF elements = <<>> THEN 0
  ELSE (IF IsJump(Head(elements)) THEN Abs(Head(elements).dur) ELSE 0)
       + JumpSum(Tail(elements))

\* C17: the cost merge_with_voice returns is the sum of the magnitudes of
\* the forward and backup markers it inserted, and the host is a voice of
\* minimal trial cost, the lowest voice id among those of equal cost.
C17_CostIsJumpSumAndHostIsFirstMinimum ==
  \A k \in 1..Len(segs) :
    segs[k].ok =>
      \A v \in DOMAIN segs[k].voices_e :
        /\ Trial(segs[k], v).cost = JumpSum(Trial(segs[k], v).result)
        /\ segs[k].cost[v] = Trial(segs[k], v).cost
        /\ segs[k].cost[segs[k].merge_voice] <= segs[k].cost[v]
        /\ segs[k].cost[v] = segs[k].cost[segs[k].merge_voice]
             => segs[k].merge_voice <= v

\* two voices of equal, non-zero trial cost, a backup among the markers
C17_Witness ==
  \E k \in 1..Len(segs) :
    /\ HostChosen(segs[k])
    /\ segs[k].merge_voice = 1
    /\ segs[k].cost[1] = segs[k].cost[2]
    /\ segs[k].cost[1] >= 2
    /\ \E j \in 1..Len(Trial(segs[k], 1).result) :
         Trial(segs[k], 1).result[j].tag = "backup"

\* ------------------------------------------------------------- attributes
CountIn(elements, x) ==
  Cardinality({j \in 1..Len(elements) : elements[j] = x})

\* C18: every attributes block of a sub-segment is in the run of the
\* lowest voice, whichever voice hosts the directions and barlines, and the
\* run of no other voice holds one.
C18_AttributesGoToLowestVoice ==
  \A k \in 1..Len(segs) :
    segs[k].ok =>
      /\ \A v \in DOMAIN segs[k].voices_e : segs[k].runs[1].voice <= v
      /\ \A j \in 1..Len(segs[k].attributes_e) :
           CountIn(segs[k].runs[1].elements, segs[k].attributes_e[j]) = 1
      /\ \A r \in 2..Len(segs[k].runs) :
           \A j \in 1..Len(segs[k].runs[r].elements) :
             segs[k].runs[r].elements[j].tag # "attributes"

\* the second voice is the host and the first carries an attributes block
C18_Witness ==
  \E k \in 1..Len(segs) :
    /\ segs[k].ok
    /\ Len(segs[k].runs) = 2
    /\ segs[k].merge_voice = segs[k].runs[2].voice
    /\ segs[k].attributes_e # <<>>
    /\ \E j \in 1..Len(segs[k].runs[1].elements) :
         segs[k].runs[1].elements[j].tag = "attributes"

\* ------------------------------------------------------------- the splits
StrictlyIncreasing(sq) == \A i \in 1..(Len(sq) - 1) : sq[i] < sq[i + 1]

\* the start points of the Divisions changes strictly inside (start, end)
DivisionsInside(start, end) ==
  {attrs[i].start : i \in {j \in 1..Len(attrs) :
                             /\ attrs[j].kind = "divisions"
                             /\ start < attrs[j].start /\ attrs[j].start < end}}

\* C19: the split list of a measure [start, end) is strictly increasing,
\* begins with start, ends with end and holds exactly the distinct starts of
\* the Divisions changes strictly inside, in whatever order the timeline
\* returns them; no sub-segment is empty or reversed.
C19_SplitsAreSorted ==
  segs # <<>> =>
    LET splits == Splits(ThisStart, ThisEnd)
    IN /\ StrictlyIncreasing(splits)
       /\ splits[1] = ThisStart
       /\ splits[Len(splits)] = ThisEnd
       /\ Range(splits) = {ThisStart, ThisEnd}
                          \cup DivisionsInside(ThisStart, ThisEnd)
       /\ \A k \in 1..Len(segs) : segs[k].start < segs[k].end

\* ------------------------------------------------------- fermatas at the end
\* C20: a fermata anchored at the end tick e of the range [s, e) is among
\* the range's barlines only if its ref is 'right'; one whose ref is None
\* is not collected for [s, e).
C20_EndFermataNeedsRefRight ==
  \A k \in 1..Len(segs) :
    segs[k].ok =>
      \A j \in 1..Len(segs[k].other_e) :
        \A c \in 1..Len(segs[k].other_e[j].kids) :
          LET kid == segs[k].other_e[j].kids[c]
          IN (kid.tag = "fermata" /\ kid.onset = segs[k].end) =>
               others[kid.src].ref = "right"

\* ------------------------------------------------------------- note order
NotesOf(elements) == SelectSeq(elements, LAMBDA x : x.tag = "note")

\* C21: within each voice of a sub-segment the notes are emitted in
\* ascending onset, grace notes before the other notes of their onset, and
\* notes equal in both respects in the order of the timeline query.
C21_VoiceNotesSorted ==
  \A k \in 1..Len(segs) :
    segs[k].ok =>
      \A r \in 1..Len(segs[k].runs) :
        LET ns == NotesOf(segs[k].runs[r].elements)
        IN \A i, j \in 1..Len(ns) :
             i < j =>
               /\ ns[i].onset <= ns[j].onset
               /\ ns[i].onset = ns[j].onset => (ns[j].grace => ns[i].grace)
               /\ (ns[i].onset = ns[j].onset /\ ns[i].grace = ns[j].grace)
                    => ns[i].src < ns[j].src

\* a grace note the timeline returned after the note of its onset, and a
\* note it returned before one of an earlier onset
C21_Witness ==
  \E k \in 1..Len(segs) :
    /\ segs[k].ok
    /\ \E r \in 1..Len(segs[k].runs) :
         LET ns == NotesOf(segs[k].runs[r].elements)
         IN /\ \E i, j \in 1..Len(ns) :
                 /\ i < j /\ ns[i].onset = ns[j].onset
                 /\ ns[i].grace /\ ~ns[j].grace /\ ns[i].src > ns[j].src
            /\ \E i, j \in 1..Len(ns) :
                 /\ i < j /\ ns[i].onset < ns[j].onset
                 /\ ns[i].src > ns[j].src

\* ------------------------------------------------------------- grace notes
\* C22: a grace note never carries a chord marker, and of the non-grace
\* notes of one onset in a voice exactly those after the first carry it,
\* however many grace notes precede them.
C22_GraceNotesNeverChord ==
  \A k \in 1..Len(segs) :
    segs[k].ok =>
      \A v \in DOMAIN segs[k].voices_e :
        LET ve == segs[k].voices_e[v]
        IN \A j \in 1..Len(ve) :
             IF ve[j].grace THEN ~ve[j].chord
             ELSE ve[j].chord <=>
                    \E i \in 1..(j - 1) :
                      ~ve[i].grace /\ ve[i].onset = ve[j].onset

\* three grace notes before two notes of the same onset
C22_Witness ==
  \E k \in 1..Len(segs) :
    /\ segs[k].ok
    /\ \E v \in DOMAIN segs[k].voices_e :
         LET ve == segs[k].voices_e[v]
         IN /\ Len(ve) = 5
            /\ \A j \in 1..5 : ve[j].onset = ve[1].onset
            /\ \A j \in 1..3 : ve[j].grace /\ ~ve[j].chord
            /\ ~ve[4].grace /\ ~ve[4].chord
            /\ ~ve[5].grace /\ ve[5].chord

\* ------------------------------------------------------------- voice runs
\* the marker the concatenation owes a run laid out from cursor pos
MarkerOwed(run) ==
  LET gap == run.elements[1].onset - run.before
  IN IF gap = 0 THEN run.marker = <<>>
     ELSE /\ Len(run.marker) = 1
          /\ run.marker[1].tag = (IF gap > 0 THEN "forward" ELSE "backup")
          /\ Abs(run.marker[1].dur) = Abs(gap)

\* C23: the runs are concatenated in ascending voice id; before a run one
\* marker is emitted iff the onset of its first element differs from the
\* running cursor (forward when greater, backup when smaller, by the
\* difference), and after the run the cursor is the onset + duration of the
\* run's last element.
C23_OneMarkerBetweenRuns ==
  \A k \in 1..Len(segs) :
    segs[k].ok =>
      LET runs == segs[k].runs
      IN /\ runs[1].before = segs[k].start
         /\ segs[k].contents =
              Flatten([r \in 1..Len(runs) |-> runs[r].marker \o runs[r].elements])
         /\ \A r \in 1..Len(runs) :
              LET last == runs[r].elements[Len(runs[r].elements)]
              IN /\ runs[r].elements # <<>>
                 /\ MarkerOwed(runs[r])
                 /\ runs[r].after = last.onset + DurOrZero(last)
                 /\ r > 1 => /\ runs[r].before = runs[r - 1].after
                             /\ runs[r - 1].voice < runs[r].voice

\* the second voice is reached by a backup of two or more ticks
C23_Witness ==
  \E k \in 1..Len(segs) :
    /\ segs[k].ok
    /\ Len(segs[k].runs) = 2
    /\ Len(segs[k].runs[2].marker) = 1
    /\ segs[k].runs[2].marker[1].tag = "backup"
    /\ segs[k].runs[2].marker[1].dur <= -2
    /\ segs[k].runs[2].after > segs[k].runs[2].before

\* ------------------------------------------------------------- tick order
Kinds == {"barline", "attributes", "note"}

\* the priorities the order is stated with: barline < attributes < note
OrderNumber(tag) ==
  CASE tag = "barline" -> 1 [] tag = "attributes" -> 2 [] tag = "note" -> 3

\* barlines before attributes before notes among the elements of one onset
KindsInOrder(elements) ==
  \A i, j \in 1..Len(elements) :
    (/\ i < j
     /\ elements[i].onset = elements[j].onset
     /\ elements[i].tag \in Kinds /\ elements[j].tag \in Kinds)
      => OrderNumber(elements[i].tag) <= OrderNumber(elements[j].tag)

\* C24: in every list merge_with_voice produces, among the elements of one
\* onset the barlines precede the attributes, which precede the notes, and
\* elements of one kind keep their input order.
C24_BarlineAttributesNote ==
  \A k \in 1..Len(segs) :
    segs[k].ok =>
      /\ \A v \in DOMAIN segs[k].voices_e :
           /\ KindsInOrder(Trial(segs[k], v).result)
           /\ NotesOf(Trial(segs[k], v).result) = segs[k].voices_e[v]
           /\ SelectSeq(Trial(segs[k], v).result, LAMBDA x : x.tag = "barline")
                = SelectSeq(segs[k].other_e, LAMBDA x : x.tag = "barline")
      /\ KindsInOrder(segs[k].runs[1].elements)
      /\ NotesOf(segs[k].runs[1].elements)
           = segs[k].voices_e[segs[k].runs[1].voice]
      /\ SelectSeq(segs[k].runs[1].elements, LAMBDA x : x.tag = "attributes")
           = segs[k].attributes_e

\* a barline, an attributes block and a note on one tick, in that order
C24_Witness ==
  \E k \in 1..Len(segs) :
    /\ segs[k].ok
    /\ \E i \in 1..(Len(segs[k].runs[1].elements) - 2) :
         LET e == segs[k].runs[1].elements
         IN /\ e[i].tag = "barline" /\ e[i + 1].tag = "attributes"
            /\ e[i + 2].tag = "note"
            /\ e[i].onset = e[i + 2].onset /\ e[i + 1].onset = e[i + 2].onset

\* ------------------------------------------------------------- slur pairs
\* C25: for a slur whose start is processed before its stop, the stop tag
\* carries the number that was on its start tag, and after the stop the
\* slur is out of the numbering table, whatever other slurs opened or
\* closed in between.
C25_StopCarriesStartNumber ==
  [][\A j \in 1..Len(note_e'.notations) :
       LET t == note_e'.notations[j]
       IN IsSlur(t, "stop") =>
            /\ t.slur \in DOMAIN opened
            /\ t.number = opened[t.slur]
            /\ SlurKey(t.slur) \notin DOMAIN counter']_vars

\* a slur numbered 2 is stopped while another slur, opened after it, and
\* no slur numbered 1 are in the table
C25_Witness ==
  \E j \in 1..Len(note_e.notations) :
    LET t == note_e.notations[j]
    IN /\ IsSlur(t, "stop") /\ t.known /\ t.number = 2
       /\ 1 \notin t.held
       /\ \E x \in DOMAIN counter : x.slur /\ x # SlurKey(t.slur)
       /\ SlurKey(t.slur) \notin DOMAIN counter

\* ------------------------------------------------------------- unique ids
\* C26: the id attributes emitted on the note elements of one export are
\* pairwise distinct, whatever ids the notes carry.
C26_EmittedIdsDistinct ==
  \A id \in DOMAIN emitted : emitted[id] = 1

\* ------------------------------------------------------------- fermatas
Standalone(i) == others[i].kind = "fermata" /\ others[i].ref \in RefsInRange

TimesBarlined(i) == IF i \in DOMAIN barlined THEN barlined[i] ELSE 0

\* C27: over all measures and sub-segments of an export each standalone
\* fermata is emitted in exactly one barline element; one anchored at a
\* boundary of two measures or sub-segments is not emitted on both sides.
C27_FermataEmittedOnce ==
  pc = "done" =>
    \A i \in 1..Len(others) : Standalone(i) => TimesBarlined(i) = 1

\* ------------------------------------------------------------- completeness
\* everything collected for a sub-segment: the note elements of its voices,
\* its attributes blocks, its directions and its barlines
Collected(seg) ==
  LET voices == SortedSet(DOMAIN seg.voices_e)
  IN Flatten([i \in 1..Len(voices) |-> seg.voices_e[voices[i]]])
     \o seg.attributes_e \o seg.other_e

Placed(seg) == SelectSeq(seg.contents, LAMBDA x : ~IsJump(x))

\* C28: every note element, attributes block, direction and barline
\* collected for a sub-segment with at least one voice is in the output of
\* merge_measure_contents exactly once, and the output holds nothing else
\* but forward and backup markers.
C28_EverythingPlacedOnce ==
  \A k \in 1..Len(segs) :
    segs[k].ok =>
      /\ Len(Placed(segs[k])) = Len(Collected(segs[k]))
      /\ \A x \in Range(Collected(segs[k])) \cup Range(Placed(segs[k])) :
           /\ CountIn(Collected(segs[k]), x) = 1
           /\ CountIn(Placed(segs[k]), x) = 1

\* two voices, the upper one hosting a direction and its dashes stop among
\* forward and backup markers
C28_Witness ==
  \E k \in 1..Len(segs) :
    /\ HostChosen(segs[k])
    /\ segs[k].merge_voice = 2
    /\ Len(segs[k].other_e) = 2
    /\ Len(segs[k].contents) > Len(Collected(segs[k]))

\* ------------------------------------------------------ hosting on an onset
\* the voice's own notes need no jump
NeedsNoJumps(seg, v) ==
  merge_with_voice(seg.voices_e[v], <<>>, seg.start).cost = 0

\* every direction and barline of the sub-segment sits on the onset of a
\* note of the voice
AllOnNoteOnsets(seg, v) ==
  /\ seg.other_e # <<>>
  /\ \A j \in 1..Len(seg.other_e) :
       \E i \in 1..Len(seg.voices_e[v]) :
         seg.voices_e[v][i].onset = seg.other_e[j].onset

\* C29: hosting a direction or a barline whose onset is the onset of a note
\* of the voice, in a voice whose notes need no jumps, inserts no forward or
\* backup marker in the trial merge and adds nothing to the voice's cost.
C29_HostingOnNoteOnsetIsFree ==
  \A k \in 1..Len(segs) :
    segs[k].ok =>
      \A v \in DOMAIN segs[k].voices_e :
        (NeedsNoJumps(segs[k], v) /\ AllOnNoteOnsets(segs[k], v)) =>
          /\ Trial(segs[k], v).cost = 0
          /\ NoJumpIn(Trial(segs[k], v).result)

\* ------------------------------------------------------------- the range
\* C30: every element placed in the output of a sub-segment [s, e) has its
\* onset within [s, e], the dashes stop of a direction that ends after e
\* included, and no forward marker leads beyond e.
C30_OutputStaysInRange ==
  \A k \in 1..Len(segs) :
    segs[k].ok =>
      \A j \in 1..Len(segs[k].contents) :
        LET x == segs[k].contents[j]
        IN /\ ~IsJump(x) =>
                (segs[k].start <= x.onset /\ x.onset <= segs[k].end)
           /\ x.tag = "forward" => x.onset + x.dur <= segs[k].end
====
